---- MODULE Spec2Model ----
(***************************************************************************)
(* Model of bitwalk_pressure_ui_chat_20250623_v04.py (the 20250622_v03     *)
(* file has the same get_coordinates, fetch_pressure_data,                 *)
(* compute_bitwalk_index and tier code).                                   *)
(*                                                                         *)
(* Numbers.  A Python float is modelled as a record: [k |-> "num"] with an *)
(* exact fraction n/d, [k |-> "nan"], or Python's None.  Pressures are     *)
(* fractions over 10 (the API's 0.1 hPa resolution), the rounded index a   *)
(* fraction over 100.  Binary floating point is abstracted to exact        *)
(* arithmetic except at one place: when (max+mean)/2 lies exactly half way *)
(* between two hundredths, the representation error of the operands        *)
(* decides which neighbour round() returns.  That direction is a fixed     *)
(* property of the series, carried by halfUp.                                 *)
(***************************************************************************)
EXTENDS Integers, Sequences, FiniteSets, TLC

VARIABLES
    pc,        \* position of the script run / of the call under test
    lat, lon,  \* line 104: lat, lon = get_coordinates(location)
    df,        \* the DataFrame bound at line 107, mutated by line 57-58
    fetched,   \* history: the frame exactly as fetch_pressure_data returned it
    halfUp,    \* direction round() takes at an exact tie for this series
    index,     \* line 108: index = compute_bitwalk_index(df)
    raised,    \* name of the exception that ended the run, or "none"
    shown,     \* sequence of widgets/messages the run has displayed
    chart,     \* data handed to px.line at line 112
    csv,       \* frame serialised by df.to_csv at line 125
    prompt,    \* data handed to generate_gpt_advice (lines 133-134, 141-142)
    scale,     \* scaling factor of the scaled call
    sindex,    \* index returned for the scaled series
    cpc,       \* per caller: statement of compute_bitwalk_index it is at
    cmax,      \* per caller: value of df['diff'].max() it has read
    cret,      \* per caller: value its last call returned
    ccalls     \* per caller: number of calls started

vars == <<pc, lat, lon, df, fetched, halfUp, index, raised, shown, chart, csv,
          prompt, scale, sindex, cpc, cmax, cret, ccalls>>

flowVars == <<lat, lon, shown, chart, csv, prompt>>
scaleVars == <<scale, sindex>>
callerVars == <<cpc, cmax, cret, ccalls>>

----------------------------------------------------------------------------
(* Bounds *)

\* longest series drawn for the calls of compute_bitwalk_index
MaxLen == 4
\* pressures drawn: PBase + 0..MaxOff tenths of hPa (plus the offset below)
MaxOff == 4
\* lowest pressure drawn, in tenths of hPa (999.8 hPa)
PBase == 9998
\* largest integer scaling factor
MaxK == 3
\* longest series the main flow and the callers fetch
FlowMaxLen == 3
\* latitudes and longitudes drawn: -MaxCoord..MaxCoord degrees
MaxCoord == 1
\* calls each caller makes on the shared frame
MaxCalls == 2

\* 12 completes the series 1000.0, 1000.2, 999.8, 1001.0
Offsets == (0..MaxOff) \cup {12}
\* differences of 0.5 and 1.5 hPa: the two tier thresholds
FlowOffsets == {0, 5, 15}
Callers == {"c1", "c2"}

----------------------------------------------------------------------------
(* Python values *)

F(n, d) == [k |-> "num", n |-> n, d |-> d]
NaN == [k |-> "nan", n |-> 0, d |-> 1]
None == [k |-> "None", n |-> 0, d |-> 1]
IsNum(x) == x.k = "num"

\* IEEE comparisons: false as soon as one side is NaN
Lt(a, b) == IsNum(a) /\ IsNum(b) /\ a.n * b.d < b.n * a.d
Le(a, b) == IsNum(a) /\ IsNum(b) /\ a.n * b.d <= b.n * a.d
Ge(a, b) == Le(b, a)
Eq(a, b) == IsNum(a) /\ IsNum(b) /\ a.n * b.d = b.n * a.d

Add(a, b) ==
    IF ~IsNum(a) \/ ~IsNum(b) THEN NaN
    ELSE IF a.d = b.d THEN F(a.n + b.n, a.d)
    ELSE F(a.n * b.d + b.n * a.d, a.d * b.d)
Neg(a) == IF IsNum(a) THEN F(-a.n, a.d) ELSE a
Sub(a, b) == Add(a, Neg(b))
Abs(a) == IF IsNum(a) /\ a.n < 0 THEN F(-a.n, a.d) ELSE a
DivInt(a, m) == IF IsNum(a) THEN F(a.n, a.d * m) ELSE a
MulInt(a, m) == IF IsNum(a) THEN F(a.n * m, a.d) ELSE a

\* truth value of a Python object in `if lat and lon`
Truthy(x) == x.k # "None" /\ ~(IsNum(x) /\ x.n = 0)

----------------------------------------------------------------------------
(* pandas Series operations used by compute_bitwalk_index *)

\* a diff that keeps the first element instead of leaving it NaN
DiffFill(col) ==
    [i \in 1..Len(col) |-> IF i = 1 THEN col[1] ELSE Sub(col[i], col[i-1])]
\* Series.diff(): the first element has no predecessor
Diff(col) ==
    [i \in 1..Len(col) |-> IF i = 1 THEN NaN ELSE Sub(col[i], col[i-1])]

\* Series.abs()
AbsCol(col) == [i \in 1..Len(col) |-> Abs(col[i])]

\* the non-NaN elements' positions (skipna=True)
Valid(col) == {i \in 1..Len(col) : IsNum(col[i])}

\* Series.max(): NaN when nothing is left after skipping NaN
Max(col) ==
    IF Valid(col) = {} THEN NaN
    ELSE LET i == CHOOSE i \in Valid(col) :
                    \A j \in Valid(col) : ~Lt(col[i], col[j])
         IN col[i]

RECURSIVE SumFrom(_, _)
SumFrom(col, i) ==
    IF i > Len(col) THEN F(0, 10)
    ELSE IF IsNum(col[i]) THEN Add(col[i], SumFrom(col, i + 1))
    ELSE SumFrom(col, i + 1)

\* a mean that divides by the number of rows, NaN rows included
MeanAll(col) ==
    IF Valid(col) = {} THEN NaN
    ELSE DivInt(SumFrom(col, 1), Len(col))
\* Series.mean(): sum over count of the non-NaN elements
Mean(col) ==
    IF Valid(col) = {} THEN NaN
    ELSE DivInt(SumFrom(col, 1), Cardinality(Valid(col)))

\* round(x, digits) of a numpy float64: scale by 10^digits, round to the
\* nearest integer, scale back; `up` is the direction taken at an exact tie
Pow10(digits) == IF digits = 1 THEN 10 ELSE 100
Round(x, digits, up) ==
    IF ~IsNum(x) THEN x
    ELSE LET N == x.n * Pow10(digits)
             q == N \div x.d
             r == N % x.d
         IN IF 2 * r < x.d THEN F(q, Pow10(digits))
            ELSE IF 2 * r > x.d THEN F(q + 1, Pow10(digits))
            ELSE IF up THEN F(q + 1, Pow10(digits)) ELSE F(q, Pow10(digits))

\* df[name] = col
SetCol(d, name, col) ==
    [c \in DOMAIN d \cup {name} |-> IF c = name THEN col ELSE d[c]]

----------------------------------------------------------------------------
(* compute_bitwalk_index, statement by statement *)

\* df['diff'] = df['pressure'].diff().abs()
Stmt57(d) == SetCol(d, "diff", AbsCol(Diff(d.pressure)))

\* line 58 assigning to the wrong column: 'diff', or 'pressure'
Stmt58Diff(d) == SetCol(d, "diff", Diff(d.pressure))
Stmt58Pressure(d) == SetCol(d, "pressure", Diff(d.pressure))
\* df['dpdt'] = df['pressure'].diff()
Stmt58(d) == SetCol(d, "dpdt", Diff(d.pressure))

\* line 59 rounding to one decimal
Stmt59OneDecimal(mx, d, up) == Round(DivInt(Add(mx, Mean(d.diff)), 2), 1, up)
\* return round((df['diff'].max() + df['diff'].mean()) / 2, 2), with the
\* maximum already read
Stmt59(mx, d, up) == Round(DivInt(Add(mx, Mean(d.diff)), 2), 2, up)

compute_bitwalk_index(d, up) ==
    LET d1 == Stmt57(d)
        d2 == Stmt58(d1)
    IN [df |-> d2, ret |-> Stmt59(Max(d2.diff), d2, up)]

\* lines 117-122: the branch taken on the index
Tier(idx) ==
    IF Lt(idx, F(5, 10)) THEN "STABLE"
    ELSE IF Lt(idx, F(15, 10)) THEN "MODERATE"
    ELSE "HIGH"

\* lines 118, 120, 122: the message of each branch
TierWidget(t) ==
    IF t = "STABLE" THEN "success_stable"
    ELSE IF t = "MODERATE" THEN "info_moderate"
    ELSE "warning_high"

----------------------------------------------------------------------------
(* fetch_pressure_data: the frames it can return *)

\* pd.to_datetime on the API's local time stamps [day, hour]: hours on one axis
to_datetime(col) == [i \in 1..Len(col) |-> col[i].day * 24 + col[i].hour]

\* hourly time stamps in chronological order, as the API is expected to send
Hourly(n) == [i \in 1..n |-> [day |-> 0, hour |-> i - 1]]
\* the same with the last two rows' stamps exchanged
SwapLast(n) ==
    [i \in 1..n |-> [day |-> 0,
                     hour |-> IF i = n - 1 THEN n - 1
                              ELSE IF i = n THEN n - 2 ELSE i - 1]]

\* lines 48-53: the frame built from j['hourly'], pressures PBase + off tenths
Frame(n, times, off) ==
    [time |-> to_datetime(times),
     pressure |-> [i \in 1..n |-> F(PBase + off[i], 10)]]

ComputeFrames ==
    UNION {{Frame(n, Hourly(n), off) : off \in [1..n -> Offsets]} : n \in 0..MaxLen}

FlowTimes(n) == IF n < 2 THEN {Hourly(n)} ELSE {Hourly(n), SwapLast(n)}
FlowFrames ==
    UNION {{Frame(n, t, off) : t \in FlowTimes(n), off \in [1..n -> FlowOffsets]}
           : n \in 0..FlowMaxLen}
CallerFrames ==
    UNION {{Frame(n, Hourly(n), off) : off \in [1..n -> FlowOffsets]}
           : n \in 0..FlowMaxLen}

\* no frame bound yet
NoFrame == [time |-> <<>>, pressure |-> <<>>]

\* the series with every successive difference multiplied by m
ScaleSeries(d, m) ==
    [time |-> d.time,
     pressure |-> [i \in 1..Len(d.pressure) |->
                      Add(d.pressure[1],
                          MulInt(Sub(d.pressure[i], d.pressure[1]), m))]]

----------------------------------------------------------------------------
(* State shared by the three specifications *)

IdleCallers ==
    /\ cpc = [c \in Callers |-> "idle"]
    /\ cmax = [c \in Callers |-> None]
    /\ cret = [c \in Callers |-> None]
    /\ ccalls = [c \in Callers |-> 0]

NoFlow ==
    /\ lat = None
    /\ lon = None
    /\ shown = <<>>
    /\ chart = NoFrame
    /\ csv = NoFrame
    /\ prompt = <<>>

NoScale ==
    /\ scale = 0
    /\ sindex = None

----------------------------------------------------------------------------
(* SpecCompute: compute_bitwalk_index as a function of its argument *)

InitCompute ==
    /\ pc = "call"
    /\ df \in ComputeFrames
    /\ fetched = df
    /\ halfUp \in BOOLEAN
    /\ index = None
    /\ raised = "none"
    /\ NoFlow /\ NoScale /\ IdleCallers

\* index = compute_bitwalk_index(df)
Call ==
    /\ pc = "call"
    /\ LET r == compute_bitwalk_index(df, halfUp)
       IN /\ df' = r.df
          /\ index' = r.ret
    /\ pc' = "returned"
    /\ UNCHANGED <<fetched, halfUp, raised>>
    /\ UNCHANGED <<flowVars, scaleVars, callerVars>>

\* compute_bitwalk_index on a fresh frame holding the series scaled by m
CallScaled ==
    /\ pc = "returned"
    /\ \E m \in 1..MaxK, up \in BOOLEAN :
          /\ m = 1 => up = halfUp
          /\ scale' = m
          /\ sindex' = compute_bitwalk_index(ScaleSeries(fetched, m), up).ret
    /\ pc' = "scaled"
    /\ UNCHANGED <<df, fetched, halfUp, index, raised>>
    /\ UNCHANGED <<flowVars, callerVars>>

NextCompute == Call \/ CallScaled

SpecCompute == InitCompute /\ [][NextCompute]_vars

----------------------------------------------------------------------------
(* Spec: one run of the script's main flow (lines 104-146), and its rerun *)

W(name, value) == [w |-> name, value |-> value]
Shows(name) == \E i \in 1..Len(shown) : shown[i].w = name
Count(name) == Cardinality({i \in 1..Len(shown) : shown[i].w = name})

Coords == (-MaxCoord)..MaxCoord

\* what the geocoding request can come back with
Responses ==
    {[outcome |-> o, lat |-> 0, lon |-> 0] : o \in {"exception", "status", "empty"}}
    \cup {[outcome |-> "found", lat |-> a, lon |-> b] : a \in Coords, b \in Coords}

get_coordinates(resp) ==
    IF resp.outcome = "found"
    THEN [lat |-> F(resp.lat, 1), lon |-> F(resp.lon, 1), errors |-> <<>>]
    ELSE IF resp.outcome = "exception"
    THEN [lat |-> None, lon |-> None,
          errors |-> <<W("error_geocode_exception", None)>>]
    ELSE [lat |-> None, lon |-> None,
          errors |-> <<W("error_geocode_unavailable", None)>>]

\* the value of the expression `lat and lon`
LatAndLon == IF Truthy(lat) THEN lon ELSE lat

\* Series.tail(n)
TailN(col, n) ==
    IF Len(col) <= n THEN col ELSE SubSeq(col, Len(col) - n + 1, Len(col))

\* df['pressure'].tail(12).round(1).tolist()
pressure_wave(d) ==
    LET t == TailN(d.pressure, 12)
    IN [i \in 1..Len(t) |-> Round(t[i], 1, halfUp)]

Init ==
    /\ pc = "start"
    /\ df = NoFrame
    /\ fetched = NoFrame
    /\ halfUp = FALSE
    /\ index = None
    /\ raised = "none"
    /\ NoFlow /\ NoScale /\ IdleCallers

\* line 104
GetCoordinates ==
    /\ pc = "start"
    /\ \E resp \in Responses :
          LET r == get_coordinates(resp)
          IN /\ lat' = r.lat
             /\ lon' = r.lon
             /\ shown' = shown \o r.errors
    /\ pc' = "branch"
    /\ UNCHANGED <<df, fetched, halfUp, index, raised, chart, csv, prompt>>
    /\ UNCHANGED <<scaleVars, callerVars>>

\* lines 105-106
BranchFound ==
    /\ pc = "branch"
    /\ Truthy(LatAndLon)
    /\ shown' = Append(shown, W("write_location", None))
    /\ pc' = "fetch"
    /\ UNCHANGED <<lat, lon, df, fetched, halfUp, index, raised, chart, csv, prompt>>
    /\ UNCHANGED <<scaleVars, callerVars>>

\* lines 145-149
BranchNotFound ==
    /\ pc = "branch"
    /\ ~Truthy(LatAndLon)
    /\ shown' = shown \o <<W("error_place_not_found", None),
                           W("subheader_mastodon", None)>>
    /\ pc' = "notfound"
    /\ UNCHANGED <<lat, lon, df, fetched, halfUp, index, raised, chart, csv, prompt>>
    /\ UNCHANGED <<scaleVars, callerVars>>

\* line 107, the request answered with hourly data
Fetch ==
    /\ pc = "fetch"
    /\ \E f \in FlowFrames, up \in BOOLEAN :
          /\ df' = f
          /\ fetched' = f
          /\ halfUp' = up
    /\ pc' = "compute"
    /\ UNCHANGED <<index, raised>>
    /\ UNCHANGED <<flowVars, scaleVars, callerVars>>

\* line 107, requests.get or the JSON access raising: the run ends there
FetchFails ==
    /\ pc = "fetch"
    /\ raised' = "FetchError"
    /\ pc' = "crashed"
    /\ UNCHANGED <<df, fetched, halfUp, index>>
    /\ UNCHANGED <<flowVars, scaleVars, callerVars>>

\* line 108
Compute ==
    /\ pc = "compute"
    /\ LET r == compute_bitwalk_index(df, halfUp)
       IN /\ df' = r.df
          /\ index' = r.ret
    /\ pc' = "metric"
    /\ UNCHANGED <<fetched, halfUp, raised>>
    /\ UNCHANGED <<flowVars, scaleVars, callerVars>>

\* line 109
Metric ==
    /\ pc = "metric"
    /\ shown' = Append(shown, W("metric", index))
    /\ pc' = "chart"
    /\ UNCHANGED <<lat, lon, df, fetched, halfUp, index, raised, chart, csv, prompt>>
    /\ UNCHANGED <<scaleVars, callerVars>>

\* lines 112-114
Chart ==
    /\ pc = "chart"
    /\ chart' = [time |-> df.time, pressure |-> df.pressure]
    /\ shown' = Append(shown, W("plotly_chart", None))
    /\ pc' = "tier"
    /\ UNCHANGED <<lat, lon, df, fetched, halfUp, index, raised, csv, prompt>>
    /\ UNCHANGED <<scaleVars, callerVars>>

\* lines 117-122
TierMessage ==
    /\ pc = "tier"
    /\ shown' = Append(shown, W(TierWidget(Tier(index)), None))
    /\ pc' = "csv"
    /\ UNCHANGED <<lat, lon, df, fetched, halfUp, index, raised, chart, csv, prompt>>
    /\ UNCHANGED <<scaleVars, callerVars>>

\* lines 125-126
Csv ==
    /\ pc = "csv"
    /\ csv' = df
    /\ shown' = Append(shown, W("download_button", None))
    /\ pc' = "chat"
    /\ UNCHANGED <<lat, lon, df, fetched, halfUp, index, raised, chart, prompt>>
    /\ UNCHANGED <<scaleVars, callerVars>>

\* lines 129-135: the question box, filled in or left empty
Chat ==
    /\ pc = "chat"
    /\ \E asked \in BOOLEAN :
          IF asked
          THEN /\ prompt' = Append(prompt, [wave |-> pressure_wave(df),
                                            index |-> index, question |-> TRUE])
               /\ shown' = Append(shown, W("ai_response", None))
          ELSE UNCHANGED <<prompt, shown>>
    /\ pc' = "advice"
    /\ UNCHANGED <<lat, lon, df, fetched, halfUp, index, raised, chart, csv>>
    /\ UNCHANGED <<scaleVars, callerVars>>

\* lines 138-144: the advice button, pressed or not
Advice ==
    /\ pc = "advice"
    /\ \E pressed \in BOOLEAN :
          IF pressed
          THEN /\ prompt' = Append(prompt, [wave |-> pressure_wave(df),
                                            index |-> index, question |-> FALSE])
               /\ shown' = Append(shown, W("advice", None))
          ELSE UNCHANGED <<prompt, shown>>
    /\ pc' = "done"
    /\ UNCHANGED <<lat, lon, df, fetched, halfUp, index, raised, chart, csv>>
    /\ UNCHANGED <<scaleVars, callerVars>>

\* Streamlit runs the script again from the top on the next interaction
Rerun ==
    /\ pc \in {"done", "notfound", "crashed"}
    /\ pc' = "start"
    /\ df' = NoFrame
    /\ fetched' = NoFrame
    /\ halfUp' = FALSE
    /\ index' = None
    /\ raised' = "none"
    /\ lat' = None
    /\ lon' = None
    /\ shown' = <<>>
    /\ chart' = NoFrame
    /\ csv' = NoFrame
    /\ prompt' = <<>>
    /\ UNCHANGED <<scaleVars, callerVars>>

Next ==
    \/ GetCoordinates
    \/ BranchFound
    \/ BranchNotFound
    \/ Fetch
    \/ FetchFails
    \/ Compute
    \/ Metric
    \/ Chart
    \/ TierMessage
    \/ Csv
    \/ Chat
    \/ Advice
    \/ Rerun

Spec == Init /\ [][Next]_vars

----------------------------------------------------------------------------
(* SpecCallers: callers running compute_bitwalk_index on one shared frame, *)
(* interleaved statement by statement, each calling it MaxCalls times      *)

InitCallers ==
    /\ pc = "callers"
    /\ df \in CallerFrames
    /\ fetched = df
    /\ halfUp \in BOOLEAN
    /\ index = None
    /\ raised = "none"
    /\ NoFlow /\ NoScale /\ IdleCallers

\* line 57
Caller57(c) ==
    /\ cpc[c] = "idle"
    /\ ccalls[c] < MaxCalls
    /\ df' = Stmt57(df)
    /\ cpc' = [cpc EXCEPT ![c] = "s58"]
    /\ ccalls' = [ccalls EXCEPT ![c] = @ + 1]
    /\ UNCHANGED <<pc, fetched, halfUp, index, raised, cmax, cret>>
    /\ UNCHANGED <<flowVars, scaleVars>>

\* line 58
Caller58(c) ==
    /\ cpc[c] = "s58"
    /\ df' = Stmt58(df)
    /\ cpc' = [cpc EXCEPT ![c] = "s59"]
    /\ UNCHANGED <<pc, fetched, halfUp, index, raised, cmax, cret, ccalls>>
    /\ UNCHANGED <<flowVars, scaleVars>>

\* line 59, df['diff'].max()
Caller59Max(c) ==
    /\ cpc[c] = "s59"
    /\ cmax' = [cmax EXCEPT ![c] = Max(df.diff)]
    /\ cpc' = [cpc EXCEPT ![c] = "s59mean"]
    /\ UNCHANGED <<pc, df, fetched, halfUp, index, raised, cret, ccalls>>
    /\ UNCHANGED <<flowVars, scaleVars>>

\* line 59, df['diff'].mean(), the rounding and the return
Caller59Return(c) ==
    /\ cpc[c] = "s59mean"
    /\ cret' = [cret EXCEPT ![c] = Stmt59(cmax[c], df, halfUp)]
    /\ cmax' = [cmax EXCEPT ![c] = None]
    /\ cpc' = [cpc EXCEPT ![c] = "idle"]
    /\ UNCHANGED <<pc, df, fetched, halfUp, index, raised, ccalls>>
    /\ UNCHANGED <<flowVars, scaleVars>>

NextCallers ==
    \E c \in Callers :
        \/ Caller57(c)
        \/ Caller58(c)
        \/ Caller59Max(c)
        \/ Caller59Return(c)

SpecCallers == InitCallers /\ [][NextCallers]_vars

----------------------------------------------------------------------------
(* Properties *)

Returned == pc \in {"returned", "scaled"}
AfterCompute == {"metric", "chart", "tier", "csv", "chat", "advice", "done"}
AfterChart == {"tier", "csv", "chat", "advice", "done"}
AfterTier == {"csv", "chat", "advice", "done"}
AfterCsv == {"chat", "advice", "done"}

SeriesLen == Len(fetched.pressure)
AbsInt(x) == IF x < 0 THEN -x ELSE x

\* d[i] = |pressure[i+1] - pressure[i]| in tenths of hPa, from the series as passed
AbsDiffs == [i \in 1..(SeriesLen - 1) |->
                AbsInt(fetched.pressure[i + 1].n - fetched.pressure[i].n)]
MaxDiff == CHOOSE m \in {AbsDiffs[i] : i \in 1..(SeriesLen - 1)} :
               \A i \in 1..(SeriesLen - 1) : AbsDiffs[i] <= m
RECURSIVE SumDiffs(_)
SumDiffs(i) == IF i = 0 THEN 0 ELSE AbsDiffs[i] + SumDiffs(i - 1)

ExampleSeries == <<F(10000, 10), F(10002, 10), F(9998, 10), F(10010, 10)>>

NonDecreasing(col) == \A i \in 1..(Len(col) - 1) : col[i] <= col[i + 1]
Constant(col) == \A i \in 1..Len(col) : col[i] = col[1]

\* C1: a series with fewer than 2 samples makes compute fail with
\* InsufficientDataError; no index is returned for it.
C1_ShortSeriesRaises ==
    (Returned /\ SeriesLen < 2) =>
        (raised = "InsufficientDataError" /\ index = None)

\* C2: for a series of n >= 2 samples the index is (maxDiff + meanDiff) / 2
\* rounded to the nearest hundredth, maxDiff and meanDiff taken over the n-1
\* absolute successive differences; 1000.0, 1000.2, 999.8, 1001.0 gives 0.9.
C2_IndexFormula ==
    (Returned /\ SeriesLen >= 2) =>
        /\ IsNum(index)
        /\ index.d = 100
        /\ 2 * AbsInt(index.n * (SeriesLen - 1)
                      - 5 * (MaxDiff * (SeriesLen - 1) + SumDiffs(SeriesLen - 1)))
             <= SeriesLen - 1
        /\ fetched.pressure = ExampleSeries => index = F(90, 100)

C2_Witness ==
    /\ pc = "returned"
    /\ fetched.pressure = ExampleSeries
    /\ index = F(90, 100)

\* C3: once the tier message is out, exactly one tier message is shown, and it
\* is STABLE's iff index < 0.5, MODERATE's iff 0.5 <= index < 1.5, HIGH's iff
\* index >= 1.5.
C3_TierTotal ==
    pc \in AfterTier =>
        /\ Count("success_stable") + Count("info_moderate")
             + Count("warning_high") = 1
        /\ Shows("success_stable") <=> Lt(index, F(5, 10))
        /\ Shows("info_moderate") <=> (Ge(index, F(5, 10)) /\ Lt(index, F(15, 10)))
        /\ Shows("warning_high") <=> Ge(index, F(15, 10))

C5_UnorderedRaises ==
    (pc \in AfterCompute /\ ~NonDecreasing(fetched.time)) =>
        (raised = "UnorderedSeriesError" /\ index = None)

\* C6: every value compute returns is >= 0.
C6_NonNegative == Returned => Ge(index, F(0, 1))

C9_ConstantIsStable ==
    (Returned /\ SeriesLen >= 2 /\ Constant(fetched.pressure)) =>
        (Eq(index, F(0, 1)) /\ Tier(index) = "STABLE")

C9_Witness ==
    /\ pc = "returned"
    /\ SeriesLen >= 2
    /\ Constant(fetched.pressure)
    /\ Eq(index, F(0, 1))

\* C10: past the branch, the location line (and with it the fetch, the index
\* and the tier) has run iff get_coordinates returned two numbers, and the
\* 'place not found' error is shown iff it returned (None, None).
C10_RunsIffNumeric ==
    pc \notin {"start", "branch"} =>
        /\ Shows("write_location") <=> (IsNum(lat) /\ IsNum(lon))
        /\ Shows("error_place_not_found") <=> (lat = None /\ lon = None)

====
